---- MODULE Spec2Model ----
(***************************************************************************)
(* The tic-tac-toe game engine of main.py: the process-wide table `games`, *)
(* the handlers new_game, get_game and make_move, and the pure function    *)
(* check_winner.                                                            *)
(*                                                                         *)
(* The handlers are `async def` coroutines without a single await, served  *)
(* by one uvicorn event loop (uvicorn.run(app, ...), one process): once a  *)
(* handler starts, it runs to its return or raise before any other handler *)
(* starts.  Requests that arrive concurrently are therefore handled one    *)
(* whole handler at a time, in an order the event loop chooses: every      *)
(* handler is one action and Next chooses the order freely.                *)
(*                                                                         *)
(* GameState.created_at is written once by create_new_game and read by no  *)
(* handler; it is not part of the state modelled here.                     *)
(***************************************************************************)
EXTENDS Integers, FiniteSets, Sequences, TLC

\* ------------------------------------------------------------ bounds
\* The table holds at most MaxGames games.
MaxGames == 2
\* A table of more than one game carries at most MaxMarks marks; a game that
\* is alone in the table is played to its end.
MaxMarks == 1

\* ------------------------------------------------------------ values
\* Python's None, as the value of winner and the result of check_winner.
None == "None"
Empty == ""
Tie == "tie"
BoardSize == 9
Cells == 0..(BoardSize - 1)
Symbols == {"X", "O"}
AllBoards == [Cells -> Symbols \cup {Empty}]

VARIABLES
    games,      \* the dict games: game_id -> GameState
    response,   \* what the last handler returned or raised
    evaluated   \* a direct call of check_winner: its argument and its result

vars == <<games, response, evaluated>>

\* ------------------------------------------------------------ check_winner
\* A slip: the second diagonal is given as 2, 4, 7.
winning_combinations_WrongDiagonal ==
    << <<0, 1, 2>>, <<3, 4, 5>>, <<6, 7, 8>>,
       <<0, 3, 6>>, <<1, 4, 7>>, <<2, 5, 8>>,
       <<0, 4, 8>>, <<2, 4, 7>> >>

winning_combinations ==
    << <<0, 1, 2>>, <<3, 4, 5>>, <<6, 7, 8>>,
       <<0, 3, 6>>, <<1, 4, 7>>, <<2, 5, 8>>,
       <<0, 4, 8>>, <<2, 4, 6>> >>

\* The condition of the loop body: the three cells are equal and not ''.
ComboWins(board, combo) ==
    /\ board[combo[1]] = board[combo[2]]
    /\ board[combo[2]] = board[combo[3]]
    /\ board[combo[1]] # Empty

\* A slip: the board counts as full as soon as it holds a mark.
BoardFull_AnyMark(board) == \E c \in Cells : board[c] # Empty

\* `'' not in board`
BoardFull(board) == \A c \in Cells : board[c] # Empty

\* The for loop over combos from index i on, then the tie check.
RECURSIVE ScanFrom(_, _, _)
ScanFrom(board, combos, i) ==
    IF i > Len(combos)
    THEN IF BoardFull(board) THEN Tie ELSE None
    ELSE IF ComboWins(board, combos[i])
         THEN board[combos[i][1]]
         ELSE ScanFrom(board, combos, i + 1)

check_winner(board) == ScanFrom(board, winning_combinations, 1)

\* ------------------------------------------------------------ create_new_game
\* A slip: O is given the first move.
create_new_game_OFirst ==
    [board |-> [c \in Cells |-> Empty],
     current_player |-> "O",
     winner |-> None,
     game_over |-> FALSE]

create_new_game ==
    [board |-> [c \in Cells |-> Empty],
     current_player |-> "X",
     winner |-> None,
     game_over |-> FALSE]

\* ------------------------------------------------------------ responses
NoId == <<0, 0>>
NoResponse == [status |-> 0, game_id |-> NoId, detail |-> "none"]
\* raise HTTPException(status_code=..., detail=...)
HTTPException(status_code, detail) ==
    [status |-> status_code, game_id |-> NoId, detail |-> detail]
\* return GameResponse(game_id=..., <the game's fields>, message=...): the
\* board, current_player, winner and game_over it carries are those of
\* games[game_id] at the return.
GameResponse(game_id, message) ==
    [status |-> 200, game_id |-> game_id, detail |-> message]

Init ==
    /\ games = <<>>
    /\ response = NoResponse
    /\ evaluated = [board |-> [c \in Cells |-> Empty], result |-> "uncalled"]

\* ------------------------------------------------------------ inputs
\* int(datetime.now().timestamp()), which new_game reads once, to put it in
\* the id; there it is only ever compared for equality with the seconds of
\* other ids.  The clock may stand still or step either way between two
\* calls, so a call reads the second of any id of the table or a second that
\* no id holds yet; seconds are numbered as they first appear.
Timestamps(gs) == 0..Cardinality(DOMAIN gs)
\* f"game_{n}_{ts}": the decimal digits of n and ts around an underscore, so
\* two ids are the same string exactly when n and ts are the same numbers.
GameId(n, ts) == <<n, ts>>
\* The ids a request may name: those of the table and one that no new_game
\* generates (len(games) + 1 is never 0).
RequestIds == DOMAIN games \cup {NoId}
Positions == (0 - 1)..BoardSize
Players == Symbols \cup {"Z"}

\* ------------------------------------------------------------ model bounds
Marks(board) == Cardinality({c \in Cells : board[c] # Empty})

RECURSIVE MarksOf(_, _)
MarksOf(gs, ids) ==
    IF ids = {} THEN 0
    ELSE LET id == CHOOSE x \in ids : TRUE
         IN  Marks(gs[id].board) + MarksOf(gs, ids \ {id})

TotalMarks(gs) == MarksOf(gs, DOMAIN gs)

\* One more mark keeps the table within MaxMarks.
WithinBounds == Cardinality(DOMAIN games) <= 1 \/ TotalMarks(games) < MaxMarks

\* ------------------------------------------------------------ new_game
\* A slip: the id is made of the second alone, without len(games) + 1.
NewGameId_SecondOnly(gs, ts) == GameId(1, ts)

\* f"game_{len(games) + 1}_{int(datetime.now().timestamp())}"
NewGameId(gs, ts) == GameId(Cardinality(DOMAIN gs) + 1, ts)

\* games[game_id] = create_new_game()
Store(gs, game_id, game) ==
    [k \in DOMAIN gs \cup {game_id} |-> IF k = game_id THEN game ELSE gs[k]]

new_game(ts) ==
    /\ Cardinality(DOMAIN games) < MaxGames
    /\ (games = <<>> \/ TotalMarks(games) <= MaxMarks)
    /\ LET game_id == NewGameId(games, ts)
       IN  /\ games' = Store(games, game_id, create_new_game)
           /\ response' = GameResponse(game_id, "New game created!")
    /\ UNCHANGED evaluated

\* ------------------------------------------------------------ get_game
get_game(game_id) ==
    /\ response' = IF game_id \notin DOMAIN games
                   THEN HTTPException(404, "Game not found")
                   ELSE GameResponse(game_id, "Game state retrieved")
    /\ UNCHANGED <<games, evaluated>>

\* ------------------------------------------------------------ make_move
\* No check failed: the handler goes on to the move.
Ok == [status |-> 200, game_id |-> NoId, detail |-> "ok"]

\* A slip: the position is checked before game_over.
MoveError_PositionFirst(gs, game_id, position, player) ==
    IF game_id \notin DOMAIN gs
    THEN HTTPException(404, "Game not found")
    ELSE IF position < 0 \/ position > 8
    THEN HTTPException(400, "Invalid position")
    ELSE IF gs[game_id].game_over
    THEN HTTPException(400, "Game is already over")
    ELSE IF gs[game_id].board[position] # Empty
    THEN HTTPException(400, "Position already taken")
    ELSE IF player # gs[game_id].current_player
    THEN HTTPException(400, "Not your turn")
    ELSE Ok

\* A slip: game_over is not checked.
MoveError_NoGameOverCheck(gs, game_id, position, player) ==
    IF game_id \notin DOMAIN gs
    THEN HTTPException(404, "Game not found")
    ELSE IF position < 0 \/ position > 8
    THEN HTTPException(400, "Invalid position")
    ELSE IF gs[game_id].board[position] # Empty
    THEN HTTPException(400, "Position already taken")
    ELSE IF player # gs[game_id].current_player
    THEN HTTPException(400, "Not your turn")
    ELSE Ok

\* A slip: the turn is not checked.
MoveError_NoTurnCheck(gs, game_id, position, player) ==
    IF game_id \notin DOMAIN gs
    THEN HTTPException(404, "Game not found")
    ELSE IF gs[game_id].game_over
    THEN HTTPException(400, "Game is already over")
    ELSE IF position < 0 \/ position > 8
    THEN HTTPException(400, "Invalid position")
    ELSE IF gs[game_id].board[position] # Empty
    THEN HTTPException(400, "Position already taken")
    ELSE Ok

\* A slip: the cell is not checked.
MoveError_NoTakenCheck(gs, game_id, position, player) ==
    IF game_id \notin DOMAIN gs
    THEN HTTPException(404, "Game not found")
    ELSE IF gs[game_id].game_over
    THEN HTTPException(400, "Game is already over")
    ELSE IF position < 0 \/ position > 8
    THEN HTTPException(400, "Invalid position")
    ELSE IF player # gs[game_id].current_player
    THEN HTTPException(400, "Not your turn")
    ELSE Ok

\* The five checks of make_move, in the order of the code: the exception the
\* first failing one raises, or Ok.
MoveError(gs, game_id, position, player) ==
    IF game_id \notin DOMAIN gs
    THEN HTTPException(404, "Game not found")
    ELSE IF gs[game_id].game_over
    THEN HTTPException(400, "Game is already over")
    ELSE IF position < 0 \/ position > 8
    THEN HTTPException(400, "Invalid position")
    ELSE IF gs[game_id].board[position] # Empty
    THEN HTTPException(400, "Position already taken")
    ELSE IF player # gs[game_id].current_player
    THEN HTTPException(400, "Not your turn")
    ELSE Ok

\* A slip: 'tie' is taken for no result.
Truthy_NotTie(winner) == winner # None /\ winner # Empty /\ winner # Tie

\* `if winner:` is Python truthiness: None and '' are false.
Truthy(winner) == winner # None /\ winner # Empty

\* A slip: the players are not switched.
SwitchPlayer_Same(current_player) == current_player

\* 'O' if game.current_player == 'X' else 'X'
SwitchPlayer(current_player) == IF current_player = "X" THEN "O" ELSE "X"

\* A slip: the winner is stored and game_over is not set.
ApplyMove_WinnerOnly(game, position, player) ==
    LET board == [game.board EXCEPT ![position] = player]
        winner == check_winner(board)
    IN  IF winner # None /\ winner # Empty
        THEN [game EXCEPT !.board = board, !.winner = winner]
        ELSE [game EXCEPT !.board = board,
                          !.current_player =
                              IF game.current_player = "X" THEN "O" ELSE "X"]

\* A slip: the players are switched after a move that ends the game too.
ApplyMove_AlwaysSwitch(game, position, player) ==
    LET board == [game.board EXCEPT ![position] = player]
        winner == check_winner(board)
        next == IF game.current_player = "X" THEN "O" ELSE "X"
    IN  IF winner # None /\ winner # Empty
        THEN [game EXCEPT !.board = board,
                          !.winner = winner,
                          !.game_over = TRUE,
                          !.current_player = next]
        ELSE [game EXCEPT !.board = board, !.current_player = next]

\* The game after the code below the checks: the mark, then the outcome or
\* the switch of players.
ApplyMove(game, position, player) ==
    LET board == [game.board EXCEPT ![position] = player]
        winner == check_winner(board)
    IN  IF Truthy(winner)
        THEN [game EXCEPT !.board = board,
                          !.winner = winner,
                          !.game_over = TRUE]
        ELSE [game EXCEPT !.board = board,
                          !.current_player = SwitchPlayer(game.current_player)]

MoveMessage(game) ==
    IF game.game_over
    THEN IF game.winner = Tie
         THEN "It's a tie!"
         ELSE "Player " \o game.winner \o " wins!"
    ELSE "Player " \o game.current_player \o "'s turn"

\* A slip: the mark is written before the turn is checked.
MoveOutcome_MarkBeforeTurnCheck(gs, game_id, position, player) ==
    LET error == MoveError(gs, game_id, position, player)
    IN  IF error = HTTPException(400, "Not your turn")
        THEN [games |-> [gs EXCEPT ![game_id].board[position] = player],
              response |-> error]
        ELSE IF error # Ok
        THEN [games |-> gs, response |-> error]
        ELSE LET game == ApplyMove(gs[game_id], position, player)
             IN  [games |-> [gs EXCEPT ![game_id] = game],
                  response |-> GameResponse(game_id, MoveMessage(game))]

\* A slip: the games share one board list, so a mark shows in every game.
MoveOutcome_SharedBoard(gs, game_id, position, player) ==
    LET error == MoveError(gs, game_id, position, player)
    IN  IF error # Ok
        THEN [games |-> gs, response |-> error]
        ELSE LET game == ApplyMove(gs[game_id], position, player)
             IN  [games |-> [k \in DOMAIN gs |->
                                IF k = game_id THEN game
                                ELSE [gs[k] EXCEPT !.board[position] = player]],
                  response |-> GameResponse(game_id, MoveMessage(game))]

\* The handler as a whole: the table it leaves and what it returns or raises.
MoveOutcome(gs, game_id, position, player) ==
    LET error == MoveError(gs, game_id, position, player)
    IN  IF error # Ok
        THEN [games |-> gs, response |-> error]
        ELSE LET game == ApplyMove(gs[game_id], position, player)
             IN  [games |-> [gs EXCEPT ![game_id] = game],
                  response |-> GameResponse(game_id, MoveMessage(game))]

make_move(game_id, position, player) ==
    \E outcome \in {MoveOutcome(games, game_id, position, player)} :
        /\ outcome.response.status = 200 => WithinBounds
        /\ games' = outcome.games
        /\ response' = outcome.response
        /\ UNCHANGED evaluated

\* ------------------------------------------------------------ specification
Next ==
    \/ \E ts \in Timestamps(games) : new_game(ts)
    \/ \E game_id \in RequestIds : get_game(game_id)
    \/ \E game_id \in RequestIds, position \in Positions, player \in Players :
           make_move(game_id, position, player)

Spec == Init /\ [][Next]_vars

\* A direct call of check_winner on any board of 9 cells over {'', 'X', 'O'}.
InitEval ==
    /\ games = <<>>
    /\ response = NoResponse
    /\ evaluated \in [board : AllBoards, result : {"uncalled"}]

Evaluate ==
    /\ evaluated.result = "uncalled"
    /\ evaluated' = [evaluated EXCEPT !.result = check_winner(evaluated.board)]
    /\ UNCHANGED <<games, response>>

NextEval == Evaluate

SpecEval == InitEval /\ [][NextEval]_vars

\* ============================================================ properties
\* The checks of apply_move that the request (game_id, position, player)
\* fails on the table gs, by their number in the specified order.  A check
\* that reads the game is failed only by a request whose game exists, and
\* the check of the cell only by a position that names a cell.
FailedChecks(gs, game_id, position, player) ==
    {n \in 1..5 :
        \/ n = 1 /\ game_id \notin DOMAIN gs
        \/ n = 2 /\ game_id \in DOMAIN gs /\ gs[game_id].game_over
        \/ n = 3 /\ position \notin Cells
        \/ n = 4 /\ game_id \in DOMAIN gs /\ position \in Cells
                 /\ gs[game_id].board[position] # Empty
        \/ n = 5 /\ game_id \in DOMAIN gs
                 /\ player # gs[game_id].current_player}

Least(S) == CHOOSE n \in S : \A m \in S : n <= m

\* The failure each check signals: NotFound is 404; InvalidArgument and
\* InvalidState are 400 and told apart by the detail.
FailureOf(n) ==
    CASE n = 1 -> [status |-> 404, detail |-> "Game not found"]
      [] n = 2 -> [status |-> 400, detail |-> "Game is already over"]
      [] n = 3 -> [status |-> 400, detail |-> "Invalid position"]
      [] n = 4 -> [status |-> 400, detail |-> "Position already taken"]
      [] n = 5 -> [status |-> 400, detail |-> "Not your turn"]

Signals(resp, n) ==
    resp.status = FailureOf(n).status /\ resp.detail = FailureOf(n).detail

Other(symbol) == IF symbol = "X" THEN "O" ELSE "X"
Count(board, symbol) == Cardinality({c \in Cells : board[c] = symbol})
Succeeded == response.status = 200 /\ response.game_id \in DOMAIN games

\* C1: in every reachable table, a make_move request that fails one or more
\* of the five checks raises the failure of the earliest failing check in
\* the order 1 key absent, 2 game over, 3 position out of range, 4 cell
\* occupied, 5 wrong player; a request that fails none does not raise.
C1_EarliestFailingCheck ==
    \A game_id \in RequestIds, position \in Positions, player \in Players :
        LET failed == FailedChecks(games, game_id, position, player)
            raised == MoveOutcome(games, game_id, position, player).response
        IN  IF failed = {}
            THEN raised.status = 200
            ELSE Signals(raised, Least(failed))

\* A finished game has just refused a move, and in this very table a request
\* that fails checks 2, 3 and 5 at once (position 9, the wrong player) is
\* answered with that failure of check 2.
C1_Witness ==
    /\ Signals(response, 2)
    /\ \E id \in DOMAIN games, player \in Players :
           /\ FailedChecks(games, id, BoardSize, player) = {2, 3, 5}
           /\ MoveOutcome(games, id, BoardSize, player).response = response

\* C2: once game_over is true of a game it is true in every later state, and
\* in every state every make_move on a finished game, with any position and
\* any player, fails with "Game is already over" and changes nothing.
C2_GameOverIsFinal ==
    /\ [](\A id \in DOMAIN games :
            games[id].game_over =>
                \A position \in Positions, player \in Players :
                    LET outcome == MoveOutcome(games, id, position, player)
                    IN  Signals(outcome.response, 2) /\ outcome.games = games)
    /\ [][\A id \in DOMAIN games :
            games[id].game_over =>
                id \in DOMAIN games' /\ games'[id].game_over]_vars

\* A finished game has refused a move.
C2_Witness ==
    /\ Signals(response, 2)
    /\ \E id \in DOMAIN games : games[id].game_over

\* C3: a make_move that fails any of the five checks leaves the whole table
\* as it was, so the same request fails the same way however often it is
\* repeated; a move to an occupied cell of an existing game always fails
\* with an InvalidState failure (cell occupied, or game over before that).
C3_FailureChangesNothing ==
    /\ [](\A game_id \in RequestIds, position \in Positions, player \in Players :
            LET failed == FailedChecks(games, game_id, position, player)
                outcome == MoveOutcome(games, game_id, position, player)
            IN  /\ failed # {} =>
                     outcome.games = games /\ outcome.response.status # 200
                /\ 4 \in failed =>
                     Signals(outcome.response, 4) \/ Signals(outcome.response, 2))
    /\ [][response'.status # 200 => games' = games]_vars

\* A move to an occupied cell of a game in progress has been refused.
C3_Witness ==
    /\ Signals(response, 4)
    /\ \E id \in DOMAIN games :
           ~games[id].game_over /\ Marks(games[id].board) >= 2

\* The cell a step has marked in a game, as a set (empty when none).
Marked(before, after) == {c \in Cells : before.board[c] # after.board[c]}

\* C4: every step that marks a cell marks it for the game's current player,
\* who is X at an even number of marks and O at an odd one, so no player
\* makes two successful moves in a row; if the move does not end the game,
\* current_player is the other symbol afterwards; and a request of any
\* player other than current_player does not succeed.
C4_TurnsAlternate ==
    /\ [][\A id \in DOMAIN games :
            \A c \in Marked(games[id], games'[id]) :
                LET mover == games'[id].board[c]
                IN  /\ mover = games[id].current_player
                    /\ mover = (IF Marks(games[id].board) % 2 = 0
                                THEN "X" ELSE "O")
                    /\ ~games'[id].game_over =>
                           games'[id].current_player = Other(mover)]_vars
    /\ [](\A id \in DOMAIN games, position \in Positions, player \in Players :
            player # games[id].current_player =>
                MoveOutcome(games, id, position, player).response.status # 200)

\* O has just made a successful move that did not end the game.
C4_Witness ==
    /\ Succeeded
    /\ response.detail = "Player X's turn"
    /\ Marks(games[response.game_id].board) >= 2

\* C5: requests are handled one whole handler at a time in any order, and
\* every step of the table is the effect of one request: at most one game
\* changes, and a game that changes was in progress and gains exactly one
\* mark, of its current player, in an empty cell, after which either the
\* game is over or the turn has passed to the other player.  So no two
\* requests succeed on the same turn or on the same cell.
C5_OneMovePerTurn ==
    [][/\ \A id \in DOMAIN games :
             \/ games'[id] = games[id]
             \/ /\ ~games[id].game_over
                /\ \E c \in Cells :
                       /\ games[id].board[c] = Empty
                       /\ games'[id].board =
                              [games[id].board EXCEPT
                                   ![c] = games[id].current_player]
                /\ Marks(games'[id].board) = Marks(games[id].board) + 1
                /\ \/ games'[id].game_over
                   \/ games'[id].current_player # games[id].current_player
       /\ Cardinality({id \in DOMAIN games : games'[id] # games[id]}) <= 1]_vars

\* Two requests have succeeded on one game, one per turn.
C5_Witness ==
    /\ Succeeded
    /\ Count(games[response.game_id].board, "X") = 2
    /\ Count(games[response.game_id].board, "O") = 2

\* C6: in every game, winner is not None exactly when game_over is true.
C6_WinnerIffGameOver ==
    \A id \in DOMAIN games : (games[id].winner # None) <=> games[id].game_over

\* A move has just won a game.
C6_Witness ==
    /\ Succeeded
    /\ games[response.game_id].game_over
    /\ games[response.game_id].winner = "O"

\* C7: in every game, the number of X cells minus the number of O cells is
\* 0 or 1.
C7_XLeadsByAtMostOne ==
    \A id \in DOMAIN games :
        Count(games[id].board, "X") - Count(games[id].board, "O") \in {0, 1}

\* A request has been refused on a game where X leads by one.
C7_Witness ==
    /\ Signals(response, 5)
    /\ \E id \in DOMAIN games :
           /\ Count(games[id].board, "X") = 3
           /\ Count(games[id].board, "O") = 2

\* C8: a cell that holds X or O holds the same symbol after every step.
C8_NoUndo ==
    [][\A id \in DOMAIN games :
          /\ id \in DOMAIN games'
          /\ \A c \in Cells :
                 games[id].board[c] # Empty =>
                     games'[id].board[c] = games[id].board[c]]_vars

\* A full board has been reached and a further move on it refused.
C8_Witness ==
    /\ response.status = 400
    /\ \E id \in DOMAIN games : Marks(games[id].board) = BoardSize

\* ------------------------------------------------------------ check_winner alone
\* The eight lines of the 3x3 grid (index = row * 3 + col), in the order
\* rows, columns, diagonal 0-4-8, diagonal 2-4-6.
Row(r) == {r * 3 + col : col \in 0..2}
Column(col) == {r * 3 + col : r \in 0..2}
LineAt(i) ==
    IF i <= 3 THEN Row(i - 1)
    ELSE IF i <= 6 THEN Column(i - 4)
    ELSE IF i = 7 THEN {0, 4, 8} ELSE {2, 4, 6}
Lines == {LineAt(i) : i \in 1..8}
Holds(board, line, symbol) == \A c \in line : board[c] = symbol
HasLine(board, symbol) == \E line \in Lines : Holds(board, line, symbol)
Called == evaluated.result # "uncalled"

\* C9 as stated: on every board, if some full line holds a single symbol s,
\* check_winner returns s.
C9_AsStated ==
    Called =>
        \A s \in Symbols : HasLine(evaluated.board, s) => evaluated.result = s

\* C9, amended: on every board where some full line holds a single symbol s
\* and no full line holds the other symbol, check_winner returns s; where
\* both symbols hold a full line it returns the symbol of the first complete
\* line in the order rows, columns, diagonal 0-4-8, diagonal 2-4-6.
C9_FirstCompleteLine ==
    Called =>
        \A s \in Symbols :
            HasLine(evaluated.board, s) =>
                /\ ~HasLine(evaluated.board, Other(s)) => evaluated.result = s
                /\ LET first == Least({i \in 1..8 : \E t \in Symbols :
                                          Holds(evaluated.board, LineAt(i), t)})
                   IN  Holds(evaluated.board, LineAt(first), evaluated.result)

\* check_winner has returned O for a board whose only complete line is the
\* diagonal 2-4-6, held by O.
C9_Witness ==
    /\ evaluated.result = "O"
    /\ Holds(evaluated.board, {2, 4, 6}, "O")
    /\ \A line \in Lines \ {{2, 4, 6}}, t \in Symbols :
           ~Holds(evaluated.board, line, t)

\* C10: on every board with no complete line, check_winner returns tie when
\* no cell is empty and None when some cell is empty; it returns tie for no
\* board that has an empty cell or a complete line.
C10_TieOnlyWhenFullAndNoLine ==
    Called =>
        LET board == evaluated.board
            noLine == \A s \in Symbols : ~HasLine(board, s)
            full == \A c \in Cells : board[c] \in Symbols
        IN  /\ noLine /\ full => evaluated.result = Tie
            /\ noLine /\ ~full => evaluated.result = None
            /\ evaluated.result = Tie => noLine /\ full

\* check_winner has returned tie for the full board X,O,X / O,X,O / O,X,O.
C10_Witness ==
    /\ evaluated.result = Tie
    /\ evaluated.board = [c \in Cells |-> IF c \in {0, 2, 4, 7} THEN "X" ELSE "O"]

\* ------------------------------------------------------------ scan order
\* The lines of a board that one symbol holds in full.
CompleteLines(board) ==
    {line \in Lines : \E t \in Symbols : Holds(board, line, t)}

\* winning_combinations with its i-th combination moved to the front.  A
\* scan returns the symbol of the first complete combination of its order,
\* so whatever any order of the eight returns, one of these eight returns.
FrontOrder(i) ==
    [j \in 1..Len(winning_combinations) |->
        IF j = 1 THEN winning_combinations[i]
        ELSE IF j <= i THEN winning_combinations[j - 1]
        ELSE winning_combinations[j]]

ReverseOrder ==
    [j \in 1..Len(winning_combinations) |->
        winning_combinations[Len(winning_combinations) + 1 - j]]

\* C11 as stated: no reachable board holds more than one complete triple,
\* and so check_winner returns the same result under every scan order.
C11_AsStated ==
    \A id \in DOMAIN games :
        /\ Cardinality(CompleteLines(games[id].board)) <= 1
        /\ \A i \in 1..Len(winning_combinations) :
               ScanFrom(games[id].board, FrontOrder(i), 1)
                   = check_winner(games[id].board)

\* C11, amended: a reachable board holds at most two complete triples (one
\* move can complete two at once), and all of them hold the same symbol; so
\* check_winner returns the same result on it under every order of the
\* eight combinations.
C11_ScanOrderIrrelevant ==
    \A id \in DOMAIN games :
        LET board == games[id].board
        IN  /\ Cardinality(CompleteLines(board)) <= 2
            /\ \E t \in Symbols :
                   \A line \in CompleteLines(board) : Holds(board, line, t)
            /\ \A i \in 1..Len(winning_combinations) :
                   ScanFrom(board, FrontOrder(i), 1) = check_winner(board)
            /\ ScanFrom(board, ReverseOrder, 1) = check_winner(board)

\* A move has completed two triples at once, and the game is won.
C11_Witness ==
    /\ Succeeded
    /\ Cardinality(CompleteLines(games[response.game_id].board)) = 2
    /\ games[response.game_id].winner = "X"

\* ------------------------------------------------------------ scenarios
\* make_move called for each (position, player) of moves from the i-th on,
\* on the game game_id of the table gs: the table at the end, whether every
\* call returned 200, and the last response.
RECURSIVE Play(_, _, _, _, _)
Play(gs, game_id, moves, i, last) ==
    IF i > Len(moves)
    THEN [games |-> gs, succeeded |-> TRUE, response |-> last]
    ELSE LET outcome == MoveOutcome(gs, game_id, moves[i][1], moves[i][2])
         IN  IF outcome.response.status # 200
             THEN [games |-> outcome.games, succeeded |-> FALSE,
                   response |-> outcome.response]
             ELSE Play(outcome.games, game_id, moves, i + 1, outcome.response)

BoardOf(cells) == [c \in Cells |-> cells[c + 1]]

Scenario2Moves == << <<0, "X">>, <<1, "O">>, <<4, "X">>, <<2, "O">>, <<8, "X">> >>
Scenario2Played(id) == Play(games, id, Scenario2Moves, 1, NoResponse)

\* C12 as stated: on a new game the five moves X 0, O 1, X 4, O 2, X 8
\* succeed and leave the board [X,O,_,O,X,_,_,_,X], winner X and game_over.
C12_AsStated ==
    \A id \in DOMAIN games :
        games[id] = create_new_game =>
            /\ Scenario2Played(id).succeeded
            /\ Scenario2Played(id).games[id].board
                   = BoardOf(<<"X", "O", "", "O", "X", "", "", "", "X">>)
            /\ Scenario2Played(id).games[id].winner = "X"
            /\ Scenario2Played(id).games[id].game_over

\* C12, amended: on a new game the five moves X 0, O 1, X 4, O 2, X 8
\* succeed and leave the board [X,O,O,_,X,_,_,_,X] (O at 1 and 2), winner X
\* by the diagonal 0-4-8 and game_over true; no other game changes.
C12_Scenario2 ==
    \A id \in DOMAIN games :
        games[id] = create_new_game =>
            LET played == Scenario2Played(id)
            IN  /\ played.succeeded
                /\ played.games[id].board
                       = BoardOf(<<"X", "O", "O", "", "X", "", "", "", "X">>)
                /\ Holds(played.games[id].board, {0, 4, 8}, "X")
                /\ played.games[id].winner = "X"
                /\ played.games[id].game_over
                /\ played.response = GameResponse(id, "Player X wins!")

\* The board of the scenario has been reached and X's last move has won.
C12_Witness ==
    /\ response.status = 200 /\ response.detail = "Player X wins!"
    /\ response.game_id \in DOMAIN games
    /\ games[response.game_id].board
           = BoardOf(<<"X", "O", "O", "", "X", "", "", "", "X">>)
    /\ games[response.game_id].game_over

\* X,O,X / O,X,O / O,X,O, and the same board with X and O exchanged.
Scenario3Board == BoardOf(<<"X", "O", "X", "O", "X", "O", "O", "X", "O">>)
Scenario3Exchanged == BoardOf(<<"O", "X", "O", "X", "O", "X", "X", "O", "X">>)

\* On every game in progress whose board is `full` less one cell, the move
\* that fills that cell with the symbol `full` has there succeeds, leaves
\* the board `full` and sets winner to tie and game_over to true.
FillingMoveTies(full) ==
    \A id \in DOMAIN games, c \in Cells :
        (~games[id].game_over /\ games[id].board = [full EXCEPT ![c] = Empty]) =>
            LET outcome == MoveOutcome(games, id, c, full[c])
            IN  /\ outcome.response = GameResponse(id, "It's a tie!")
                /\ outcome.games[id].board = full
                /\ outcome.games[id].winner = Tie
                /\ outcome.games[id].game_over

\* C13 as stated: X,O,X / O,X,O / O,X,O holds no three-in-a-row, and the
\* move that fills it, from a board of legal play that is one cell short of
\* it, succeeds and sets winner to tie and game_over to true.
C13_AsStated ==
    /\ CompleteLines(Scenario3Board) = {}
    /\ FillingMoveTies(Scenario3Board)

\* C13, amended: X,O,X / O,X,O / O,X,O holds five O and four X and is the
\* board of no game, since X moves first; the board with X and O exchanged,
\* O,X,O / X,O,X / X,O,X, holds no three-in-a-row, is reached by legally
\* alternating moves, and the move that fills it sets winner to tie and
\* game_over to true.
C13_Scenario3 ==
    /\ \A id \in DOMAIN games : games[id].board # Scenario3Board
    /\ CompleteLines(Scenario3Exchanged) = {}
    /\ FillingMoveTies(Scenario3Exchanged)
    /\ \A id \in DOMAIN games :
           games[id].board = Scenario3Exchanged =>
               games[id].winner = Tie /\ games[id].game_over

\* The exchanged board has been filled by a successful move, and is a tie.
C13_Witness ==
    /\ Succeeded
    /\ response.detail = "It's a tie!"
    /\ games[response.game_id].board = Scenario3Exchanged

\* ------------------------------------------------------------ new games
Created == response.status = 200 /\ response.detail = "New game created!"
FreshGame(game) ==
    /\ \A c \in Cells : game.board[c] = Empty
    /\ game.current_player = "X"
    /\ game.winner = None
    /\ game.game_over = FALSE

\* C14: in every reachable table, whatever second the clock shows (that of
\* an existing id included), the id new_game generates is not in the table
\* and storing the new game under it adds one entry and leaves every
\* existing entry as it was; and every step that creates a game grows the
\* table by exactly one entry and changes no game that was there.
C14_NewIdIsNew ==
    /\ [](\A ts \in Timestamps(games) :
            LET game_id == NewGameId(games, ts)
                after == Store(games, game_id, create_new_game)
            IN  /\ game_id \notin DOMAIN games
                /\ Cardinality(DOMAIN after) = Cardinality(DOMAIN games) + 1
                /\ \A id \in DOMAIN games : after[id] = games[id])
    /\ [][(response'.detail = "New game created!" \/ DOMAIN games' # DOMAIN games) =>
            /\ Cardinality(DOMAIN games') = Cardinality(DOMAIN games) + 1
            /\ \A id \in DOMAIN games :
                   id \in DOMAIN games' /\ games'[id] = games[id]]_vars

\* A second game has just been created in the same second as the first,
\* and the first still holds its mark.
C14_Witness ==
    /\ Created
    /\ \E first \in DOMAIN games :
           /\ first # response.game_id
           /\ first[2] = response.game_id[2]
           /\ Marks(games[first].board) = 1

\* C15: the game a new_game call returns has nine empty cells,
\* current_player X, winner None and game_over false; and so has the game
\* new_game would store in any reachable table, whatever the games of the
\* table are like.
C15_NewGameIsFresh ==
    /\ Created =>
           response.game_id \in DOMAIN games /\ FreshGame(games[response.game_id])
    /\ \A ts \in Timestamps(games) :
           LET game_id == NewGameId(games, ts)
           IN  FreshGame(Store(games, game_id, create_new_game)[game_id])

\* A second game has just been created, in another second than the first,
\* beside a game where X has moved.
C15_Witness ==
    /\ Created
    /\ \E first \in DOMAIN games :
           /\ first[2] # response.game_id[2]
           /\ games[first].current_player = "O"

\* ------------------------------------------------------------ outcome
\* C16: in every game that is not over current_player is X or O, every cell
\* of every board is empty, X or O, and a make_move whose player is neither
\* X nor O fails and leaves the table as it was.
C16_SymbolsOnly ==
    \A id \in DOMAIN games :
        /\ ~games[id].game_over => games[id].current_player \in Symbols
        /\ \A c \in Cells : games[id].board[c] \in Symbols \cup {Empty}
        /\ \A position \in Positions, player \in Players \ Symbols :
               LET outcome == MoveOutcome(games, id, position, player)
               IN  outcome.response.status # 200 /\ outcome.games = games

\* A player that is neither X nor O has just been refused an empty cell of
\* a game in progress.
C16_Witness ==
    /\ Signals(response, 5)
    /\ \E id \in DOMAIN games, c \in Cells :
           /\ Marks(games[id].board) = 1
           /\ games[id].board[c] = Empty
           /\ FailedChecks(games, id, c, "Z") = {5}
           /\ MoveOutcome(games, id, c, "Z").response = response

\* C17: in every game winner is what check_winner returns for the board,
\* and game_over is true exactly when that is not None; a game that is not
\* over has no complete triple and an empty cell, a game that is over has a
\* complete triple of its winner or a full board and winner tie.
C17_OutcomeMatchesBoard ==
    \A id \in DOMAIN games :
        LET game == games[id]
        IN  /\ game.winner = check_winner(game.board)
            /\ game.game_over <=> check_winner(game.board) # None
            /\ ~game.game_over =>
                   CompleteLines(game.board) = {} /\ Marks(game.board) < BoardSize
            /\ game.game_over =>
                   \/ game.winner \in Symbols /\ HasLine(game.board, game.winner)
                   \/ /\ game.winner = Tie
                      /\ Marks(game.board) = BoardSize
                      /\ CompleteLines(game.board) = {}

\* The ninth move has just filled a board without a complete triple.
C17_Witness ==
    /\ Succeeded
    /\ games[response.game_id].winner = Tie
    /\ games[response.game_id].board[4] = "X"
    /\ Marks(games[response.game_id].board) = BoardSize

\* C18: a move that ends a game leaves current_player as it was, the player
\* who made that move, and a winner that is a symbol is that player; so in
\* every finished game with winner X or O current_player is the winner, and
\* in a tied game current_player is X, who filled the last cell.
C18_WinnerKeepsTurn ==
    /\ [][\A id \in DOMAIN games :
            \A c \in Marked(games[id], games'[id]) :
                games'[id].game_over =>
                    /\ games'[id].current_player = games'[id].board[c]
                    /\ games'[id].current_player = games[id].current_player
                    /\ games'[id].winner \in Symbols =>
                           games'[id].winner = games'[id].board[c]]_vars
    /\ [](\A id \in DOMAIN games :
            games[id].game_over =>
                IF games[id].winner = Tie
                THEN games[id].current_player = "X"
                ELSE games[id].current_player = games[id].winner)

\* X's fourth move has just won, and it is still X's turn.
C18_Witness ==
    /\ Succeeded
    /\ games[response.game_id].winner = "X"
    /\ games[response.game_id].current_player = "X"
    /\ Marks(games[response.game_id].board) = 7

\* ------------------------------------------------------------ one game, played on
\* A successful move: make_move by the current player on an empty cell.
LegalMove ==
    \E id \in DOMAIN games, position \in Cells :
        /\ games[id].board[position] = Empty
        /\ make_move(id, position, games[id].current_player)
        /\ games' # games

\* One game in the table, and any request on it or on a missing id.
NextOneGame ==
    \/ games = <<>> /\ \E ts \in Timestamps(games) : new_game(ts)
    \/ \E game_id \in RequestIds : get_game(game_id)
    \/ \E game_id \in RequestIds, position \in Positions, player \in Players :
           make_move(game_id, position, player)

\* Moves keep being made: as long as a successful move is possible, one is
\* made sooner or later, among any number of failing or reading requests.
SpecOneGame == Init /\ [][NextOneGame]_vars /\ WF_vars(LegalMove)

\* C19: a board never holds more than 9 marks; a successful make_move adds
\* exactly one mark and nothing else changes a board, so the successful
\* moves on a game are as many as its non-empty cells, at most 9; a game
\* that is over holds at least 5 marks and a game with 9 marks is over; and
\* if moves keep being made, every game reaches game_over.
C19_GameEndsWithinNineMoves ==
    /\ [](\A id \in DOMAIN games :
            /\ Marks(games[id].board) <= BoardSize
            /\ games[id].game_over => Marks(games[id].board) >= 5
            /\ Marks(games[id].board) = BoardSize => games[id].game_over
            /\ \A position \in Positions, player \in Players :
                   LET outcome == MoveOutcome(games, id, position, player)
                   IN  Marks(outcome.games[id].board) =
                           Marks(games[id].board) +
                               (IF outcome.response.status = 200 THEN 1 ELSE 0))
    /\ [][\A id \in DOMAIN games :
            games'[id] # games[id] =>
                /\ response'.status = 200
                /\ Marks(games'[id].board) = Marks(games[id].board) + 1]_vars
    /\ (games # <<>>) ~> (\A id \in DOMAIN games : games[id].game_over)

\* A game has ended with the fifth successful move on it.
C19_Witness ==
    /\ Succeeded
    /\ games[response.game_id].game_over
    /\ Marks(games[response.game_id].board) = 5
    /\ games[response.game_id].board[4] = "O"

\* ------------------------------------------------------------ independence
\* C20: in every reachable table a make_move on game_id, successful or
\* failing, keeps the ids of the table and leaves every other game as it
\* was, and a new_game leaves every game of the table as it was; every step
\* leaves all games but the one its response names unchanged, and a step
\* that answers get_game, or raises, changes no game at all.
C20_GamesIndependent ==
    /\ [](\A game_id \in RequestIds, position \in Positions, player \in Players :
            LET after == MoveOutcome(games, game_id, position, player).games
            IN  /\ DOMAIN after = DOMAIN games
                /\ \A id \in DOMAIN games \ {game_id} : after[id] = games[id])
    /\ [](\A ts \in Timestamps(games), id \in DOMAIN games :
            Store(games, NewGameId(games, ts), create_new_game)[id] = games[id])
    /\ [][/\ \A id \in DOMAIN games \ {response'.game_id} :
               id \in DOMAIN games' /\ games'[id] = games[id]
          /\ (response'.detail = "Game state retrieved" \/ response'.status # 200)
               => games' = games]_vars

\* A move on one of two games has just succeeded, and the other game is as
\* new_game made it.
C20_Witness ==
    /\ Succeeded
    /\ response.detail = "Player O's turn"
    /\ \E other \in DOMAIN games \ {response.game_id} : FreshGame(games[other])

====
